---- MODULE Spec2Model ----
(***************************************************************************)
(* Model of server.py: four tool adapters (nasa_apod,                      *)
(* nasa_donki_recent_events, nasa_media_search, nasa_neows_feed) over the  *)
(* helpers _key, _get and _err.  One invocation is a coroutine: it runs    *)
(* from its entry to the `await _get(...)`, is resumed by the outcome of   *)
(* the GET, and runs to the next await or to its return.                   *)
(*                                                                         *)
(* Encoding of JSON scalars.  A string-valued field is an integer code:    *)
(*   Null   (-1)  None, or a key that is absent (dict.get conflates them)  *)
(*   Empty  ( 0)  the empty string ""                                      *)
(*   n > 0        a non-empty string; for timestamps and numeric strings   *)
(*                the code orders as the string orders / is the number     *)
(*   BadNum (-2)  a non-empty string that is not a number                  *)
(* A caller-supplied numeric parameter is a tagged value [k, n]:           *)
(*   k = "int"    the integer n          k = "float"  the float n + 0.5    *)
(*   k = "str"    a non-numeric string   k = "none"   None                 *)
(***************************************************************************)
EXTENDS Integers, Sequences, FiniteSets, TLC

\* ---------------------------------------------------------------- bounds
MaxLimit == 2
MaxEvents == 2
MaxObjs == 2
MaxItems == 2

\* -------------------------------------------------------------- encoding
Null == -1
Empty == 0
BadNum == -2
Today == 20

Truthy(v) == v # Null /\ v # Empty

\* Python's `a or b`
Or(a, b) == IF Truthy(a) THEN a ELSE b

IntV(n) == [k |-> "int", n |-> n]
FloatV(n) == [k |-> "float", n |-> n]
StrV == [k |-> "str", n |-> 0]
NoneV == [k |-> "none", n |-> 0]

\* int(v): truncation toward zero for a float, ValueError for a non-numeric
\* string, TypeError for None
IntRaises(v) == v.k \in {"str", "none"}
PyInt(v) == IF v.k = "float" /\ v.n < 0 THEN v.n + 1 ELSE v.n

Max(a, b) == IF a >= b THEN a ELSE b
Min(a, b) == IF a <= b THEN a ELSE b

\* max(int(v), 1)
Clamp_NoFloor(v) == PyInt(v)
Clamp(v) == Max(PyInt(v), 1)

\* s[:n] for an integer n (a negative n counts from the end)
Slice(s, n) ==
    IF n >= 0 THEN SubSeq(s, 1, Min(n, Len(s)))
    ELSE SubSeq(s, 1, Max(Len(s) + n, 0))

\* ------------------------------------------------------------ exceptions
ValueError == [kind |-> "ValueError", msg |-> "invalid literal for int() with base 10"]
TypeError == [kind |-> "TypeError", msg |-> "bad operand type"]
AttributeError == [kind |-> "AttributeError", msg |-> "object has no attribute"]
HTTPStatusError == [kind |-> "HTTPStatusError", msg |-> "Client error '404 Not Found'"]
ReadTimeout == [kind |-> "ReadTimeout", msg |-> ""]
JSONDecodeError == [kind |-> "JSONDecodeError", msg |-> "Expecting value"]
NoExc == [kind |-> "", msg |-> ""]

\* what `await _get(...)` can raise: raise_for_status, a network failure
\* (httpx timeouts carry an empty message), r.json()
GetExceptions == {HTTPStatusError, ReadTimeout, JSONDecodeError}

ExceptionKinds ==
    {ValueError.kind, TypeError.kind, AttributeError.kind, HTTPStatusError.kind,
     ReadTimeout.kind, JSONDecodeError.kind}

\* `except Exception`
Catches_OnlyHTTP(e) == e.kind = "HTTPStatusError"
Catches(e) == e.kind \in ExceptionKinds

_err_OkTrue(e) ==
    [ok |-> TRUE, error |-> e.kind \o ": " \o (IF e.msg = "" THEN "Unknown error" ELSE e.msg)]
_err(e) ==
    [ok |-> FALSE, error |-> e.kind \o ": " \o (IF e.msg = "" THEN "Unknown error" ELSE e.msg)]

\* ----------------------------------------------------------------- state
VARIABLES
    env,          \* the process environment: NASA_API_KEY set or not, its value
    pc,           \* "idle", "awaiting" (suspended in await _get), "done", "raised"
    tool,         \* the adapter invoked
    args,         \* its arguments
    inflight,     \* GETs issued and not yet returned
    gets,         \* every GET issued by the invocation, in order
    failedAt,     \* Len(gets) when a GET raised, 0 if none did
    nfail,        \* number of GETs that raised
    exc,          \* the exception raised inside the adapter, NoExc if none
    result,       \* the value returned to the caller
    types,        \* nasa_donki_recent_events: local `types`
    idx,          \* nasa_donki_recent_events: position of the loop in `types`
    events,       \* nasa_donki_recent_events: local `events`
    resps,        \* nasa_donki_recent_events: shape of each response received
    neo_by_date   \* nasa_neows_feed: local `neo_by_date`

vars == <<env, pc, tool, args, inflight, gets, failedAt, nfail, exc, result,
          types, idx, events, resps, neo_by_date>>

NoResult == [none |-> TRUE]
NoArgs == [none |-> TRUE]

\* os.getenv("NASA_API_KEY", "DEMO_KEY")
_key == IF env.set THEN env.value ELSE "DEMO_KEY"

Envs == {[set |-> FALSE, value |-> ""], [set |-> TRUE, value |-> ""],
         [set |-> TRUE, value |-> "MYKEY"]}

Init ==
    /\ env \in Envs
    /\ pc = "idle"
    /\ tool = "none"
    /\ args = NoArgs
    /\ inflight = <<>>
    /\ gets = <<>>
    /\ failedAt = 0
    /\ nfail = 0
    /\ exc = NoExc
    /\ result = NoResult
    /\ types = <<>>
    /\ idx = 0
    /\ events = <<>>
    /\ resps = <<>>
    /\ neo_by_date = <<>>

\* ------------------------------------------------------- control fragments
\* an exception reaches the adapter's `except Exception as e: return _err(e)`
Raise(e) ==
    /\ exc' = e
    /\ IF Catches(e)
       THEN pc' = "done" /\ result' = _err(e)
       ELSE pc' = "raised" /\ result' = NoResult

Return(envelope) ==
    /\ pc' = "done"
    /\ result' = envelope
    /\ exc' = exc

\* the adapter calls _get and suspends; `rest` are the GETs still in flight
Issue(rest, req) ==
    /\ inflight' = Append(rest, req)
    /\ gets' = Append(gets, req)
    /\ pc' = "awaiting"
    /\ UNCHANGED <<exc, result>>

Req(url, params) == [url |-> url, params |-> params]

SeqsUpTo(S, n) == UNION {[1..k -> S] : k \in 0..n}

\* ------------------------------------------------------------- nasa_apod
ApodDates == {"", "2020-07-30"}

ApodBodies ==
    {[title |-> 1, date |-> 2, media_type |-> 3, url |-> 4, hdurl |-> h, explanation |-> x] :
        h \in {Null, 5}, x \in {Null, 6}}

ApodEnvelope(data) ==
    [ok |-> TRUE, title |-> data.title, date |-> data.date,
     media_type |-> data.media_type, url |-> data.url, hdurl |-> data.hdurl,
     explanation |-> data.explanation]

ApodCall(date) ==
    /\ pc = "idle"
    /\ tool' = "apod"
    /\ args' = [date |-> date]
    /\ Issue(inflight, Req("https://api.nasa.gov/planetary/apod",
                IF date # "" THEN [api_key |-> _key, date |-> date]
                ELSE [api_key |-> _key]))
    /\ UNCHANGED <<env, failedAt, nfail, types, idx, events, resps, neo_by_date>>

\* the GET returned a JSON object
ApodReturnDict ==
    /\ pc = "awaiting" /\ tool = "apod"
    /\ \E data \in ApodBodies :
           /\ inflight' = Tail(inflight)
           /\ Return(ApodEnvelope(data))
           /\ UNCHANGED <<env, tool, args, gets, failedAt, nfail, types, idx, events, resps,
                          neo_by_date>>

\* the GET returned JSON that is not an object: data.get raises
ApodReturnNonDict ==
    /\ pc = "awaiting" /\ tool = "apod"
    /\ inflight' = Tail(inflight)
    /\ Raise(AttributeError)
    /\ UNCHANGED <<env, tool, args, gets, failedAt, nfail, types, idx, events, resps,
                   neo_by_date>>

\* ----------------------------------------------- nasa_donki_recent_events
StrE(s) == [k |-> "str", s |-> s]
NoneE == [k |-> "none", s |-> ""]
IntE == [k |-> "int", s |-> ""]

EventTypeVals ==
    {StrE("FLR"), StrE("ALL"), StrE("all"), StrE("gst"), StrE(""), NoneE, IntE}

\* the values a caller passes for days and limit
ParamVals == {IntV(n) : n \in -1..MaxLimit} \cup {StrV, FloatV(-1)}
DaysVals == {IntV(0), IntV(MaxLimit), StrV}

\* str.upper() on the event types above
Upper(s) ==
    CASE s = "all" -> "ALL"
      [] s = "gst" -> "GST"
      [] s = "flr" -> "FLR"
      [] s = "cme" -> "CME"
      [] OTHER -> s

\* et = (event_type or "FLR").upper(); ["FLR", "CME", "GST"] for "ALL"
DonkiTypes_Reordered(event_type) ==
    LET et == Upper(IF event_type.k = "none" \/ event_type.s = "" THEN "FLR" ELSE event_type.s)
    IN IF et = "ALL" THEN <<"FLR", "GST", "CME">> ELSE <<et>>
DonkiTypes(event_type) ==
    LET et == Upper(IF event_type.k = "none" \/ event_type.s = "" THEN "FLR" ELSE event_type.s)
    IN IF et = "ALL" THEN <<"FLR", "CME", "GST">> ELSE <<et>>

RawBase ==
    [isdict |-> TRUE, flrID |-> Null, gstID |-> Null, cmeID |-> Null, activityID |-> Null,
     eventID |-> Null, beginTime |-> Null, startTime |-> Null, timeStart |-> Null,
     timeTag |-> Null, sourceLocation |-> Null, location |-> Null, source |-> Null,
     link |-> Null, url |-> Null]

\* the raw events an upstream list is drawn from; the last one is not a JSON
\* object, so raw.get raises
RawSamples ==
    {[RawBase EXCEPT !.flrID = 11, !.beginTime = 3, !.sourceLocation = 7, !.link = 8],
     RawBase,
     [RawBase EXCEPT !.activityID = 12, !.beginTime = Empty, !.timeStart = 1, !.location = 7,
                     !.url = 9],
     [RawBase EXCEPT !.eventID = 14, !.timeTag = Empty],
     [RawBase EXCEPT !.isdict = FALSE]}

\* the body of `for raw in data`
DonkiEvent(t, raw) ==
    [type |-> t,
     id |-> Or(Or(Or(Or(raw.flrID, raw.gstID), raw.cmeID), raw.activityID), raw.eventID),
     start_time |-> Or(Or(Or(raw.beginTime, raw.startTime), raw.timeStart), raw.timeTag),
     source |-> Or(Or(raw.sourceLocation, raw.location), raw.source),
     link |-> Or(raw.link, raw.url)]

\* key=lambda e: e.get("start_time") or ""
SortKey(e) == Or(e.start_time, Empty)

\* sorted(events, key=..., reverse=True): descending and stable
InsertDesc(t, e) ==
    LET k == Cardinality({i \in 1..Len(t) : SortKey(t[i]) >= SortKey(e)})
    IN SubSeq(t, 1, k) \o <<e>> \o SubSeq(t, k + 1, Len(t))

RECURSIVE SortedDesc_Asc(_)
SortedDesc_Asc(s) ==
    IF s = <<>> THEN <<>>
    ELSE LET t == SortedDesc_Asc(SubSeq(s, 1, Len(s) - 1))
             e == s[Len(s)]
             k == Cardinality({i \in 1..Len(t) : SortKey(t[i]) <= SortKey(e)})
         IN SubSeq(t, 1, k) \o <<e>> \o SubSeq(t, k + 1, Len(t))

RECURSIVE SortedDesc(_)
SortedDesc(s) ==
    IF s = <<>> THEN <<>>
    ELSE InsertDesc(SortedDesc(SubSeq(s, 1, Len(s) - 1)), s[Len(s)])

\* events_sorted, events_limited and the success envelope; days and limit are
\* the coerced locals
DonkiEnvelope_CapFirst(days, limit, tys, evs) ==
    LET events_limited == SortedDesc(Slice(evs, limit))
    IN [ok |-> TRUE,
        range |-> [start_date |-> Today - days, end_date |-> Today],
        event_types |-> tys,
        count |-> Len(events_limited),
        events |-> events_limited]
DonkiEnvelope(days, limit, tys, evs) ==
    LET events_sorted == SortedDesc(evs)
        events_limited == Slice(events_sorted, limit)
    IN [ok |-> TRUE,
        range |-> [start_date |-> Today - days, end_date |-> Today],
        event_types |-> tys,
        count |-> Len(events_limited),
        events |-> events_limited]

DonkiReq(t, days) ==
    Req("https://api.nasa.gov/DONKI/" \o t,
        [startDate |-> Today - days, endDate |-> Today, api_key |-> _key])

\* entry to the first await: coercion of days and limit, the list of types
DonkiCall(event_type, days, limit) ==
    /\ pc = "idle"
    /\ tool' = "donki"
    /\ args' = [event_type |-> event_type, days |-> days, limit |-> limit]
    /\ events' = <<>>
    /\ IF IntRaises(days) \/ IntRaises(limit)
       THEN /\ Raise(LET v == IF IntRaises(days) THEN days ELSE limit
                     IN IF v.k = "none" THEN TypeError ELSE ValueError)
            /\ UNCHANGED <<inflight, gets, types, idx>>
       ELSE IF event_type.k = "int"
       THEN /\ Raise(AttributeError)
            /\ UNCHANGED <<inflight, gets, types, idx>>
       ELSE /\ types' = DonkiTypes(event_type)
            /\ idx' = 1
            /\ Issue(inflight, DonkiReq(DonkiTypes(event_type)[1], Clamp(days)))
    /\ UNCHANGED <<env, failedAt, nfail, resps, neo_by_date>>

\* the end of one iteration of `for t in types`: the next GET, or the sort,
\* the cap and the return
DonkiAdvance(evs) ==
    /\ events' = evs
    /\ IF idx < Len(types)
       THEN /\ idx' = idx + 1
            /\ Issue(Tail(inflight), DonkiReq(types[idx + 1], Clamp(args.days)))
       ELSE /\ idx' = idx
            /\ inflight' = Tail(inflight)
            /\ gets' = gets
            /\ Return(DonkiEnvelope(Clamp(args.days), Clamp(args.limit), types, evs))

\* the GET returned a list
DonkiReturnList ==
    /\ pc = "awaiting" /\ tool = "donki"
    /\ \E data \in SeqsUpTo(RawSamples, MaxEvents - Len(events)) :
           /\ resps' = Append(resps, "list")
           /\ LET bad == {i \in 1..Len(data) : ~data[i].isdict}
                  good == IF bad = {} THEN Len(data)
                          ELSE (CHOOSE i \in bad : \A j \in bad : i <= j) - 1
                  evs == events \o [i \in 1..good |-> DonkiEvent(types[idx], data[i])]
              IN IF bad = {}
                 THEN DonkiAdvance(evs)
                 ELSE /\ events' = evs
                      /\ inflight' = Tail(inflight)
                      /\ Raise(AttributeError)
                      /\ UNCHANGED <<gets, idx>>
           /\ UNCHANGED <<env, tool, args, failedAt, nfail, types, neo_by_date>>

\* the GET returned JSON that is not a list: `continue`
DonkiReturnNonList_Abort ==
    /\ pc = "awaiting" /\ tool = "donki"
    /\ resps' = Append(resps, "nonlist")
    /\ inflight' = Tail(inflight)
    /\ Raise(TypeError)
    /\ UNCHANGED <<env, tool, args, gets, failedAt, nfail, types, idx, events, neo_by_date>>
DonkiReturnNonList ==
    /\ pc = "awaiting" /\ tool = "donki"
    /\ resps' = Append(resps, "nonlist")
    /\ DonkiAdvance(events)
    /\ UNCHANGED <<env, tool, args, failedAt, nfail, types, neo_by_date>>

\* ----------------------------------------------------- nasa_media_search
YearVals == {NoneV, IntV(1999), StrV}

BlockBase ==
    [nasa_id |-> Null, title |-> Null, media_type |-> Null, date_created |-> Null,
     description |-> Null]

\* an upstream item: `data` a list of blocks, `links` a list of links, each
\* link given by its href
ItemSamples ==
    {[isdict |-> TRUE,
      data |-> <<[BlockBase EXCEPT !.nasa_id = 1, !.title = 2, !.media_type = 3]>>,
      links |-> <<Empty, 5, 6>>],
     [isdict |-> TRUE, data |-> <<>>, links |-> <<>>],
     [isdict |-> TRUE, data |-> <<[BlockBase EXCEPT !.nasa_id = 4]>>, links |-> <<Null>>],
     [isdict |-> FALSE, data |-> <<>>, links |-> <<>>]}

\* for ln in links_block: href = ln.get("href"); if href: preview = href; break
Preview(links) ==
    LET hit == {i \in 1..Len(links) : Truthy(links[i])}
    IN IF hit = {} THEN Null ELSE links[CHOOSE i \in hit : \A j \in hit : i <= j]

\* the body of `for it in raw_items`
MediaItem(it) ==
    LET data_block == IF it.data = <<>> THEN BlockBase ELSE it.data[1]
    IN [nasa_id |-> data_block.nasa_id, title |-> data_block.title,
        media_type |-> data_block.media_type, date_created |-> data_block.date_created,
        description |-> data_block.description, preview |-> Preview(it.links)]

MediaParams(query, media_type, page, year_start, year_end) ==
    CASE year_start.k # "none" /\ year_end.k # "none" ->
            [q |-> query, media_type |-> media_type, page |-> page,
             year_start |-> PyInt(year_start), year_end |-> PyInt(year_end)]
      [] year_start.k # "none" /\ year_end.k = "none" ->
            [q |-> query, media_type |-> media_type, page |-> page,
             year_start |-> PyInt(year_start)]
      [] year_start.k = "none" /\ year_end.k # "none" ->
            [q |-> query, media_type |-> media_type, page |-> page,
             year_end |-> PyInt(year_end)]
      [] OTHER -> [q |-> query, media_type |-> media_type, page |-> page]

MediaEnvelope(query, media_type, page, items) ==
    [ok |-> TRUE, query |-> query, media_type |-> media_type, page |-> page,
     count |-> Len(items), items |-> items]

\* entry to the await: coercion of page, year_start and year_end
MediaCall(query, media_type, year_start, year_end, page) ==
    /\ pc = "idle"
    /\ tool' = "media"
    /\ args' = [query |-> query, media_type |-> media_type, year_start |-> year_start,
                year_end |-> year_end, page |-> page]
    /\ IF IntRaises(page)
       THEN /\ Raise(IF page.k = "none" THEN TypeError ELSE ValueError)
            /\ UNCHANGED <<inflight, gets>>
       ELSE IF year_start.k = "str" \/ year_end.k = "str"
       THEN /\ Raise(ValueError)
            /\ UNCHANGED <<inflight, gets>>
       ELSE Issue(inflight,
                  Req("https://images-api.nasa.gov/search",
                      MediaParams(query, media_type, Clamp(page), year_start, year_end)))
    /\ UNCHANGED <<env, failedAt, nfail, types, idx, events, resps, neo_by_date>>

\* the GET returned a JSON object; raw_items is collection.items, or [] when
\* the collection or its items are absent or null
MediaReturnDict ==
    /\ pc = "awaiting" /\ tool = "media"
    /\ \E raw_items \in SeqsUpTo(ItemSamples, MaxItems) :
           /\ inflight' = Tail(inflight)
           /\ IF \E i \in 1..Len(raw_items) : ~raw_items[i].isdict
              THEN Raise(AttributeError)
              ELSE Return(MediaEnvelope(args.query, args.media_type, Clamp(args.page),
                                        [i \in 1..Len(raw_items) |-> MediaItem(raw_items[i])]))
           /\ UNCHANGED <<env, tool, args, gets, failedAt, nfail, types, idx, events, resps,
                          neo_by_date>>

\* the GET returned JSON that is not an object: data.get raises
MediaReturnNonDict ==
    /\ pc = "awaiting" /\ tool = "media"
    /\ inflight' = Tail(inflight)
    /\ Raise(AttributeError)
    /\ UNCHANGED <<env, tool, args, gets, failedAt, nfail, types, idx, events, resps,
                   neo_by_date>>

\* ------------------------------------------------------- nasa_neows_feed
\* bool(x) on the hazard flag, given by its class: "null" (None or absent),
\* "false", "true", "str" (a non-empty string, such as "false")
PyBool(h) == h \in {"true", "str"}

NoApproach == [close_approach_date |-> Null, miss |-> Null, vel |-> Null]

\* an upstream object: `meters` is estimated_diameter.meters (absent: <<>>),
\* `cad` is close_approach_data, whose entries carry
\* miss_distance.kilometers and relative_velocity.kilometers_per_hour
ObjSamples ==
    {[isdict |-> TRUE, haz |-> "true", name |-> 1,
      meters |-> <<[estimated_diameter_min |-> 2, estimated_diameter_max |-> 3]>>,
      cad |-> <<[close_approach_date |-> 9, miss |-> 4, vel |-> 5]>>, nasa_jpl_url |-> 6],
     [isdict |-> TRUE, haz |-> "false", name |-> 2, meters |-> <<>>, cad |-> <<>>,
      nasa_jpl_url |-> Null],
     [isdict |-> TRUE, haz |-> "null", name |-> 3, meters |-> <<>>,
      cad |-> <<[close_approach_date |-> Null, miss |-> BadNum, vel |-> Empty]>>,
      nasa_jpl_url |-> Null],
     [isdict |-> TRUE, haz |-> "str", name |-> 4, meters |-> <<>>,
      cad |-> <<[close_approach_date |-> 9, miss |-> Empty, vel |-> 5]>>,
      nasa_jpl_url |-> Null],
     [isdict |-> FALSE, haz |-> "null", name |-> Null, meters |-> <<>>, cad |-> <<>>,
      nasa_jpl_url |-> Null]}

DateOrders == {<<>>, <<7>>, <<8, 7>>}

\* the value under one date: a list of objects, or null
ArrVals ==
    {[null |-> FALSE, objs |-> o] : o \in SeqsUpTo(ObjSamples, MaxObjs)}
        \cup {[null |-> TRUE, objs |-> <<>>]}

RECURSIVE Total(_)
Total(arrs) == IF arrs = <<>> THEN 0 ELSE Len(Head(arrs).objs) + Total(Tail(arrs))

\* near_earth_objects: dates in upstream order, each with its value
Feeds ==
    UNION {{[i \in 1..Len(o) |-> [d |-> o[i], arr |-> a[i]]] :
                a \in {b \in [1..Len(o) -> ArrVals] : Total(b) <= MaxObjs}} :
           o \in DateOrders}

\* the (date, object) pairs in the order the two loops visit them
RECURSIVE Pairs(_)
Pairs(feed) ==
    IF feed = <<>> THEN <<>>
    ELSE [i \in 1..Len(Head(feed).arr.objs) |-> [d |-> Head(feed).d, obj |-> Head(feed).arr.objs[i]]]
         \o Pairs(Tail(feed))

\* `if hazardous_only and not is_h: continue`
NeoKeep_All(hazardous_only, is_h) == TRUE
NeoKeep(hazardous_only, is_h) == ~(hazardous_only /\ ~is_h)

\* the first close-approach entry, {} when the list is empty or absent
FirstApproach(obj) == IF obj.cad = <<>> THEN NoApproach ELSE obj.cad[1]

\* the record appended to `flat`
NeoItem(d, obj) ==
    LET ca == FirstApproach(obj)
        diam == IF obj.meters = <<>>
                THEN [estimated_diameter_min |-> Null, estimated_diameter_max |-> Null]
                ELSE obj.meters[1]
    IN [name |-> obj.name,
        is_potentially_hazardous |-> PyBool(obj.haz),
        estimated_diameter_m |-> [min |-> diam.estimated_diameter_min,
                                  max |-> diam.estimated_diameter_max],
        close_approach_date |-> Or(ca.close_approach_date, d),
        miss_distance_km |-> IF Truthy(ca.miss) THEN ca.miss ELSE Null,
        relative_velocity_kmh |-> IF Truthy(ca.vel) THEN ca.vel ELSE Null,
        nasa_jpl_url |-> obj.nasa_jpl_url]

\* obj.get on a non-object, or float() of a non-numeric string of an object
\* that was not skipped
ItemRaises(hazardous_only, obj) ==
    \/ ~obj.isdict
    \/ /\ NeoKeep(hazardous_only, PyBool(obj.haz))
       /\ (FirstApproach(obj).miss = BadNum \/ FirstApproach(obj).vel = BadNum)

\* the two nested loops that fill `flat`
RECURSIVE FlatFrom(_, _)
FlatFrom(ps, hazardous_only) ==
    IF ps = <<>> THEN <<>>
    ELSE IF NeoKeep(hazardous_only, PyBool(Head(ps).obj.haz))
    THEN <<NeoItem(Head(ps).d, Head(ps).obj)>> \o FlatFrom(Tail(ps), hazardous_only)
    ELSE FlatFrom(Tail(ps), hazardous_only)

NeoFlat(feed, hazardous_only) == FlatFrom(Pairs(feed), hazardous_only)

\* max(1, limit) and the slice: a str or None does not compare with 1, a
\* float above 1 is no slice index
NeoCapRaises(limit) == limit.k \in {"str", "none"} \/ (limit.k = "float" /\ limit.n >= 1)
NeoCap(limit) == IF limit.k = "float" THEN 1 ELSE Max(1, limit.n)

NeoEnvelope_CountCapped(start_date, end_date, hazardous_only, limit, flat) ==
    [ok |-> TRUE,
     range |-> [start_date |-> start_date, end_date |-> end_date],
     hazardous_only |-> hazardous_only,
     count |-> Len(Slice(flat, limit)),
     items |-> Slice(flat, limit)]
NeoEnvelope(start_date, end_date, hazardous_only, limit, flat) ==
    [ok |-> TRUE,
     range |-> [start_date |-> start_date, end_date |-> end_date],
     hazardous_only |-> hazardous_only,
     count |-> Len(flat),
     items |-> Slice(flat, limit)]

NeoCall(start_date, end_date, hazardous_only, limit) ==
    /\ pc = "idle"
    /\ tool' = "neo"
    /\ args' = [start_date |-> start_date, end_date |-> end_date,
                hazardous_only |-> hazardous_only, limit |-> limit]
    /\ Issue(inflight, Req("https://api.nasa.gov/neo/rest/v1/feed",
                [start_date |-> start_date, end_date |-> end_date, api_key |-> _key]))
    /\ UNCHANGED <<env, failedAt, nfail, types, idx, events, resps, neo_by_date>>

\* the GET returned a JSON object; feed is its near_earth_objects, {} when
\* absent or null
NeoReturnDict ==
    /\ pc = "awaiting" /\ tool = "neo"
    /\ \E feed \in Feeds :
           /\ inflight' = Tail(inflight)
           /\ neo_by_date' = feed
           /\ \E ps \in {Pairs(feed)} :
                \E bad \in {{i \in 1..Len(ps) : ItemRaises(args.hazardous_only, ps[i].obj)}} :
                  IF bad # {}
                  THEN Raise(IF ps[CHOOSE i \in bad : \A j \in bad : i <= j].obj.isdict
                             THEN ValueError ELSE AttributeError)
                  ELSE IF NeoCapRaises(args.limit)
                  THEN Raise(TypeError)
                  ELSE Return(NeoEnvelope(args.start_date, args.end_date, args.hazardous_only,
                                          NeoCap(args.limit), FlatFrom(ps, args.hazardous_only)))
           /\ UNCHANGED <<env, tool, args, gets, failedAt, nfail, types, idx, events, resps>>

\* the GET returned JSON that is not an object: data.get raises
NeoReturnNonDict ==
    /\ pc = "awaiting" /\ tool = "neo"
    /\ inflight' = Tail(inflight)
    /\ Raise(AttributeError)
    /\ UNCHANGED <<env, tool, args, gets, failedAt, nfail, types, idx, events, resps,
                   neo_by_date>>

\* ---------------------------------------------------------------- _get
\* `await _get(...)` raises in any adapter: the exception leaves the try
\* body, nothing is retried
GetRaises_Retry(e) ==
    /\ pc = "awaiting"
    /\ Len(gets) < 4
    /\ failedAt' = Len(gets)
    /\ nfail' = nfail + 1
    /\ Issue(Tail(inflight), Head(inflight))
    /\ UNCHANGED <<env, tool, args, types, idx, events, resps, neo_by_date>>
GetRaises(e) ==
    /\ pc = "awaiting"
    /\ inflight' = Tail(inflight)
    /\ failedAt' = Len(gets)
    /\ nfail' = nfail + 1
    /\ Raise(e)
    /\ UNCHANGED <<env, tool, args, gets, types, idx, events, resps, neo_by_date>>

Next ==
    \/ \E date \in ApodDates : ApodCall(date)
    \/ ApodReturnDict
    \/ ApodReturnNonDict
    \/ \E t \in EventTypeVals, d \in DaysVals, l \in ParamVals : DonkiCall(t, d, l)
    \/ DonkiReturnList
    \/ DonkiReturnNonList
    \/ \E ys \in YearVals, ye \in YearVals, p \in ParamVals :
            MediaCall("mars", "image", ys, ye, p)
    \/ MediaReturnDict
    \/ MediaReturnNonDict
    \/ \E h \in BOOLEAN, l \in ParamVals : NeoCall("2024-01-01", "2024-01-02", h, l)
    \/ NeoReturnDict
    \/ NeoReturnNonDict
    \/ \E e \in GetExceptions : GetRaises(e)

Spec == Init /\ [][Next]_vars

\* ================================================================ claims
Range(s) == {s[i] : i \in 1..Len(s)}
Count(s, x) == Cardinality({i \in 1..Len(s) : s[i] = x})

Success(t) == pc = "done" /\ tool = t /\ result.ok = TRUE

SuccessFields(t) ==
    CASE t = "apod" -> {"title", "date", "media_type", "url", "hdurl", "explanation"}
      [] t = "donki" -> {"range", "event_types", "count", "events"}
      [] t = "media" -> {"query", "media_type", "page", "count", "items"}
      [] t = "neo" -> {"range", "hazardous_only", "count", "items"}
      [] OTHER -> {}

\* a caller's value that is <= 0 (the float n + 0.5 is <= 0 iff n < 0)
LeqZero(v) == (v.k = "int" /\ v.n <= 0) \/ (v.k = "float" /\ v.n < 0)
OneOrLess(v) == LeqZero(v) \/ v = IntV(1)

\* max(limit, 1) for the caller's limit of a successful call
Cap(v) == IF v.n >= 1 THEN v.n ELSE 1

IsAll == args.event_type.k = "str" /\ args.event_type.s \in {"ALL", "all", "All", "aLL"}

HasStart(e) == e.start_time > 0
StartKey(e) == IF HasStart(e) THEN e.start_time ELSE 0

\* the upstream objects of the feed that pass the hazardous_only filter
Passing == {i \in 1..Len(Pairs(neo_by_date)) :
               ~args.hazardous_only \/ Pairs(neo_by_date)[i].obj.haz \in {"true", "str"}}

ErrorString(e) == e.kind \o ": " \o (IF e.msg = "" THEN "Unknown error" ELSE e.msg)

\* C1: every returned envelope holds either the adapter's success fields with
\* ok = true, or the error field alone with ok = false, never both or neither
C1_EnvelopeShape ==
    pc = "done" =>
        LET d == DOMAIN result
        IN /\ "ok" \in d
           /\ \/ /\ "error" \in d
                 /\ d \cap SuccessFields(tool) = {}
                 /\ d = {"ok", "error"}
                 /\ result.ok = FALSE
              \/ /\ "error" \notin d
                 /\ d = {"ok"} \cup SuccessFields(tool)
                 /\ result.ok = TRUE

C1_Witness ==
    /\ pc = "done" /\ tool = "media" /\ gets # <<>>
    /\ "error" \in DOMAIN result
    /\ exc = AttributeError

\* C2: no exception leaves an adapter; whatever was raised inside it (coercion,
\* the GET, the transformation) the adapter returns ok = false with the error
\* string "<kind>: <message>" ("Unknown error" standing for an empty message)
C2_NoPropagation ==
    /\ pc # "raised"
    /\ exc # NoExc =>
          /\ pc = "done"
          /\ result = [ok |-> FALSE, error |-> ErrorString(exc)]

C2_Witness ==
    /\ pc = "done" /\ tool = "donki" /\ Len(gets) = 2
    /\ exc = HTTPStatusError
    /\ result.error = "HTTPStatusError: Client error '404 Not Found'"

\* C3: the api_key sent with a GET is never empty: the fallback literal when
\* NASA_API_KEY is unset or empty, the variable's value otherwise
C3_KeyNonEmpty ==
    \A i \in 1..Len(gets) :
        "api_key" \in DOMAIN gets[i].params =>
            /\ gets[i].params.api_key # ""
            /\ gets[i].params.api_key =
                  (IF ~env.set \/ env.value = "" THEN "DEMO_KEY" ELSE env.value)

\* C4 as stated: count is the number of objects passing the filter, and
\* len(items) <= limit and <= count, for every limit
C4_Original ==
    Success("neo") =>
        /\ result.count = Cardinality(Passing)
        /\ Len(result.items) <= args.limit.n
        /\ Len(result.items) <= result.count

\* C4 amended: count is the number of objects passing the filter whatever the
\* limit, and len(items) <= max(limit, 1) and <= count
C4_CountAndCap ==
    Success("neo") =>
        /\ result.count = Cardinality(Passing)
        /\ Len(result.items) <= Cap(args.limit)
        /\ Len(result.items) <= result.count

C4_Witness ==
    /\ Success("neo") /\ args.hazardous_only /\ args.limit = IntV(1)
    /\ Len(Pairs(neo_by_date)) = 2
    /\ result.count = 1 /\ Len(result.items) = 1

\* C5: a limit, days or page value <= 0 gives the result the value 1 gives:
\* one event or item kept (none only when there is none), a one-day range,
\* page 1 sent and reported
C5_LimitCoercion ==
    /\ (Success("donki") /\ OneOrLess(args.limit)) =>
          /\ result.events = Slice(SortedDesc(events), 1)
          /\ result.count = Len(result.events)
          /\ events # <<>> => Len(result.events) = 1
    /\ (tool = "donki" /\ ~IntRaises(args.days) /\ OneOrLess(args.days)) =>
          /\ \A i \in 1..Len(gets) :
                gets[i].params.startDate = Today - 1 /\ gets[i].params.endDate = Today
          /\ Success("donki") => result.range = [start_date |-> Today - 1, end_date |-> Today]
    /\ (tool = "media" /\ ~IntRaises(args.page) /\ OneOrLess(args.page)) =>
          /\ \A i \in 1..Len(gets) : gets[i].params.page = 1
          /\ Success("media") => result.page = 1
    /\ (Success("neo") /\ OneOrLess(args.limit)) =>
          /\ result.items = Slice(NeoFlat(neo_by_date, args.hazardous_only), 1)
          /\ result.count > 0 => Len(result.items) = 1

C5_Witness ==
    /\ Success("donki") /\ args.limit = IntV(0) /\ args.days = IntV(0)
    /\ Len(events) = 2 /\ Len(result.events) = 1

\* C6 as stated: for "ALL" in any letter case, event_types is FLR, CME, GST,
\* the events are in descending start_time order with those lacking one last,
\* and len(events) <= limit
C6_Original ==
    (Success("donki") /\ IsAll) =>
        /\ result.event_types = <<"FLR", "CME", "GST">>
        /\ \A i, j \in 1..Len(result.events) :
              (i < j /\ HasStart(result.events[j])) =>
                  /\ HasStart(result.events[i])
                  /\ result.events[i].start_time >= result.events[j].start_time
        /\ Len(result.events) <= args.limit.n

\* C6 amended: as stated, with len(events) <= max(limit, 1)
C6_AllSorted ==
    (Success("donki") /\ IsAll) =>
        /\ result.event_types = <<"FLR", "CME", "GST">>
        /\ \A i, j \in 1..Len(result.events) :
              (i < j /\ HasStart(result.events[j])) =>
                  /\ HasStart(result.events[i])
                  /\ result.events[i].start_time >= result.events[j].start_time
        /\ Len(result.events) <= Cap(args.limit)

C6_Witness ==
    /\ Success("donki") /\ args.event_type.s = "all"
    /\ Len(events) = 2 /\ Len(result.events) = 2
    /\ events[1].start_time = Null /\ HasStart(events[2])
    /\ result.events = <<events[2], events[1]>>

\* C7: a non-list response adds no event of its type and the loop goes on (to
\* the next GET, or to a success envelope after the last type); a GET that
\* raises ends the call with the error envelope alone, the events collected
\* so far not returned
C7_FanOut ==
    tool = "donki" =>
        /\ \A i \in 1..Len(resps) :
              resps[i] = "nonlist" =>
                  /\ \A k \in 1..Len(events) : events[k].type # types[i]
                  /\ IF i < Len(types)
                     THEN Len(gets) >= i + 1
                     ELSE pc = "done" /\ result.ok = TRUE /\ "events" \in DOMAIN result
        /\ failedAt # 0 =>
              /\ pc = "done"
              /\ result.ok = FALSE
              /\ DOMAIN result = {"ok", "error"}
              /\ Len(gets) = failedAt

C7_Witness ==
    /\ tool = "donki" /\ failedAt = 3
    /\ resps = <<"list", "nonlist">>
    /\ events # <<>>
    /\ pc = "done" /\ "events" \notin DOMAIN result

\* the GETs an invocation makes when nothing fails, by URL
ExpectedUrls ==
    CASE tool = "apod" -> <<"https://api.nasa.gov/planetary/apod">>
      [] tool = "neo" -> <<"https://api.nasa.gov/neo/rest/v1/feed">>
      [] tool = "media" -> <<"https://images-api.nasa.gov/search">>
      [] tool = "donki" ->
            IF IsAll
            THEN <<"https://api.nasa.gov/DONKI/FLR", "https://api.nasa.gov/DONKI/CME",
                   "https://api.nasa.gov/DONKI/GST">>
            ELSE [i \in 1..Len(types) |-> "https://api.nasa.gov/DONKI/" \o types[i]]
      [] OTHER -> <<>>

\* at most one GET is outstanding, the GETs made are the expected ones in
\* order, and after a GET has raised there is no other GET and the call has
\* ended with the error
Sequential ==
    /\ Len(inflight) <= 1
    /\ (pc = "awaiting") = (Len(inflight) = 1)
    /\ pc = "awaiting" => inflight[1] = gets[Len(gets)]
    /\ Len(gets) <= Len(ExpectedUrls)
    /\ \A i \in 1..Len(gets) : gets[i].url = ExpectedUrls[i]
    /\ failedAt # 0 =>
          /\ nfail = 1
          /\ Len(gets) = failedAt
          /\ pc = "done"
          /\ result = [ok |-> FALSE, error |-> ErrorString(exc)]

\* an argument whose coercion raises before the first GET
CoercionRaises ==
    \/ tool = "media" /\ (IntRaises(args.page) \/ args.year_start.k = "str"
                            \/ args.year_end.k = "str")
    \/ tool = "donki" /\ (IntRaises(args.days) \/ IntRaises(args.limit)
                            \/ args.event_type.k = "int")

C9_HazardousOnly ==
    Success("neo") =>
        /\ args.hazardous_only =>
              \A i \in 1..Len(result.items) : result.items[i].is_potentially_hazardous = TRUE
        /\ ~args.hazardous_only =>
              /\ result.count = Len(Pairs(neo_by_date))
              /\ Len(result.items) = Min(result.count, Cap(args.limit))

C9_Witness ==
    /\ Success("neo") /\ args.hazardous_only
    /\ \E i \in 1..Len(Pairs(neo_by_date)) : Pairs(neo_by_date)[i].obj.haz = "null"
    /\ \E i \in 1..Len(Pairs(neo_by_date)) : Pairs(neo_by_date)[i].obj.haz = "str"
    /\ Len(result.items) = 1

\* C10: the cap follows the sort of the combined list: the events returned are
\* the first max(limit, 1) of the sorted list of all events of all types, so
\* no event left out starts later than one returned
C10_CapAfterSort ==
    Success("donki") =>
        LET ret == result.events
        IN /\ Len(ret) = Min(Len(events), Cap(args.limit))
           /\ ret = SubSeq(SortedDesc(events), 1, Len(ret))
           /\ \A x \in Range(events) :
                 /\ Count(ret, x) <= Count(events, x)
                 /\ Count(ret, x) < Count(events, x) =>
                       \A r \in Range(ret) : StartKey(x) <= StartKey(r)

C10_Witness ==
    /\ Success("donki") /\ IsAll /\ args.limit = IntV(1)
    /\ Len(events) = 2 /\ events[1].type = "FLR" /\ events[2].type = "GST"
    /\ StartKey(events[2]) > StartKey(events[1])
    /\ result.events = <<events[2]>>
====
